---- MODULE Spec2Model ----
(***************************************************************************)
(* Model of rust-voting: the divisor iterator (Divisors) and the highest   *)
(* averages seat allocator (HighestAverages::allocate_seats) of            *)
(* src/src/highest_averages.rs.                                            *)
(*                                                                         *)
(* Rationals are records [num, den] kept in lowest terms with den > 0, as  *)
(* num_rational's Ratio::new leaves them.  Party indices are 1-based here  *)
(* (the code's idx + 1); rows (ranks) are 0-based as in the code.          *)
(***************************************************************************)
EXTENDS Integers, Sequences, FiniteSets, TLC

VARIABLES method, pc, nb_seats, parties, div, matrix, seats, cmp, iters

vars == <<method, pc, nb_seats, parties, div, matrix, seats, cmp, iters>>

(* ---------------------------- bounds ----------------------------------- *)
MaxSeats == 5
MaxParties == 3
MaxVotes == 4
MaxScale == 3
MaxExtraRanks == 2
MaxFurther == 2
MaxIters == 2
MaxRank == 5

(* ---------------------------- Method ----------------------------------- *)
Methods == {"DHondt", "SainteLague", "Imperiali", "HuntingtonHill", "Danish"}

PositiveMethods == {"DHondt", "SainteLague", "Imperiali", "Danish"}

(* ------------------------ num_rational::Rational ------------------------ *)
Abs(x) == IF x < 0 THEN -x ELSE x

RECURSIVE GCD(_, _)
GCD(a, b) == IF b = 0 THEN a ELSE GCD(b, a % b)

\* Ratio::new(numer, denom) for denom # 0: reduce to lowest terms, den > 0.
\* (denom = 0 panics; callers test for it before using this operator.)
RationalNew(n, d) ==
    LET g == GCD(Abs(n), Abs(d))
        s == IF d < 0 THEN -1 ELSE 1
    IN  [num |-> (s * n) \div g, den |-> (s * d) \div g]

\* Ratio * Ratio.
RationalMul(a, b) == RationalNew(a.num * b.num, a.den * b.den)

\* Ratio * integer.
RationalScale(a, k) == RationalNew(a.num * k, a.den)

\* Ord::cmp on Ratio: exact comparison, -1 / 0 / 1.
RationalCmp(a, b) ==
    IF a.num * b.den < b.num * a.den THEN -1
    ELSE IF a.num * b.den > b.num * a.den THEN 1
    ELSE 0

(* ------------------------------ Divisors -------------------------------- *)
\* HighestAverages::divisors / the struct literal: a fresh iterator.
Divisors(m) == [method |-> m, idx |-> 0]

DivisorValue_Mutant(m, i) ==
    CASE m = "DHondt"         -> RationalNew(i + 1, 1)
      [] m = "SainteLague"    -> RationalNew(i * 2 + 1, 1)
      [] m = "Imperiali"      -> RationalNew(i + 2, 1)
      [] m = "HuntingtonHill" -> RationalScale(RationalNew((i + 1) * (i + 2), 1), -1)
      [] m = "Danish"         -> RationalNew(i * 3 + 1, 1)

\* The match of Divisors::next.
DivisorValue(m, i) ==
    CASE m = "DHondt"         -> RationalNew(i + 1, 1)
      [] m = "SainteLague"    -> RationalNew(i * 2 + 1, 1)
      [] m = "Imperiali"      -> RationalNew(i + 2, 2)
      [] m = "HuntingtonHill" -> RationalScale(RationalNew((i + 1) * (i + 2), 1), -1)
      [] m = "Danish"         -> RationalNew(i * 3 + 1, 1)

\* Divisors::next: the value produced and the iterator afterwards.
DivisorsNext(d) ==
    [value |-> DivisorValue(d.method, d.idx),
     iter  |-> [d EXCEPT !.idx = d.idx + 1]]

(* --------------------------- allocate_seats ----------------------------- *)
Quotient_Inverted(party, divisor) == RationalMul(RationalNew(party, 1), divisor)

Quotient_Truncated(party, divisor) ==
    RationalNew(divisor.num \div (party * divisor.den), 1)

\* Rational::new(1, *party as isize) * divisor, for party # 0.
Quotient(party, divisor) == RationalMul(RationalNew(1, party), divisor)

\* Rational::new(1, 0) panics ("denominator == 0").
RowPanics(ps) == \E p \in 1..Len(ps) : ps[p] = 0

\* The inner for loop: push (idx, row, quotient) for every party in order.
PushRow(m, row, divisor, ps) ==
    m \o [p \in 1..Len(ps) |->
            [idx |-> p, row |-> row, q |-> Quotient(ps[p], divisor)]]

InsertStable_Mutant(s, e) ==
    LET k == Cardinality({i \in 1..Len(s) : RationalCmp(s[i].q, e.q) < 0})
    IN  SubSeq(s, 1, k) \o <<e>> \o SubSeq(s, k + 1, Len(s))

\* Place e in the sorted sequence s behind every element that is not
\* greater: equal elements keep their order (sort_by is a stable sort).
InsertStable(s, e) ==
    LET k == Cardinality({i \in 1..Len(s) : RationalCmp(s[i].q, e.q) <= 0})
    IN  SubSeq(s, 1, k) \o <<e>> \o SubSeq(s, k + 1, Len(s))

RECURSIVE SortByQuotient(_)
\* matrix.sort_by(|e1, e2| e1.2.cmp(&e2.2)): stable, ascending.
SortByQuotient(m) ==
    IF m = << >> THEN << >>
    ELSE InsertStable(SortByQuotient(SubSeq(m, 1, Len(m) - 1)), m[Len(m)])

NoneFromLastRow_Mutant(m, n, row) == TRUE

\* !matrix[0..nb_seats].iter().any(|s| s.1 == row)
NoneFromLastRow(m, n, row) == ~ \E i \in 1..n : m[i].row = row

\* One pass of the body of the for loop over the divisors.
LoopBody(m, d, n, ps) ==
    LET nx  == DivisorsNext(d)
        row == d.idx
    IN  IF RowPanics(ps)
        THEN [ctl |-> "panic", matrix |-> m, div |-> nx.iter]
        ELSE LET m1 == PushRow(m, row, nx.value, ps)
             IN  IF Len(m1) < n
                 THEN [ctl |-> "continue", matrix |-> m1, div |-> nx.iter]
                 ELSE LET m2 == SortByQuotient(m1)
                      IN  IF NoneFromLastRow(m2, n, row)
                          THEN [ctl |-> "break", matrix |-> m2, div |-> nx.iter]
                          ELSE [ctl |-> "continue", matrix |-> m2, div |-> nx.iter]

\* The tally after the loop: seats[seat.0] += 1 over matrix[0..nb_seats].
SeatVector(m, n, ps) ==
    [p \in 1..Len(ps) |-> Cardinality({i \in 1..n : m[i].idx = p})]

\* The model explores the loop only up to this many ranks for a call.
RankCap(n) == n + MaxExtraRanks

RECURSIVE RunLoop(_, _, _, _)
RunLoop(m, d, n, ps) ==
    LET st == LoopBody(m, d, n, ps)
    IN  IF st.ctl = "continue" /\ st.div.idx < RankCap(n)
        THEN RunLoop(st.matrix, st.div, n, ps)
        ELSE st

\* allocate_seats as a function of its inputs; ok is FALSE when no vector
\* is returned (panic, or no break within the explored ranks).
AllocateSeats(m, n, ps) ==
    LET st == RunLoop(<< >>, Divisors(m), n, ps)
    IN  IF st.ctl = "break"
        THEN [ok |-> TRUE, seats |-> SeatVector(st.matrix, n, ps)]
        ELSE [ok |-> FALSE, seats |-> << >>]

(* ------------------------------ inputs ---------------------------------- *)
PartyLists == UNION {[1..k -> 0..MaxVotes] : k \in 0..MaxParties}

ExampleSeats == 13
ExampleParties == <<480, 310, 940, 270>>
ExampleResult == <<3, 1, 8, 1>>

NoCmp == [kind |-> "none", party |-> 0, votes |-> << >>, ok |-> FALSE, seats |-> << >>]

(* --------------------------- specification ------------------------------ *)
\* HighestAverages::new(method).
Init ==
    /\ method \in Methods
    /\ pc = "idle"
    /\ nb_seats = 0
    /\ parties = << >>
    /\ div = Divisors(method)
    /\ matrix = << >>
    /\ seats = << >>
    /\ cmp = NoCmp
    /\ iters = << >>

\* Entry of allocate_seats(nb_seats, parties).
Call(n, ps) ==
    /\ pc = "idle"
    /\ nb_seats' = n
    /\ parties' = ps
    /\ matrix' = << >>
    /\ div' = Divisors(method)
    /\ pc' = "loop"
    /\ UNCHANGED <<method, seats, cmp, iters>>

\* The call made by the test example_verkiezingen2018.
CallExample ==
    /\ method = "Imperiali"
    /\ Call(ExampleSeats, ExampleParties)

\* One iteration of the for loop (followed for RankCap(nb_seats) ranks).
LoopIteration ==
    /\ pc = "loop"
    /\ div.idx < RankCap(nb_seats)
    /\ LET st == LoopBody(matrix, div, nb_seats, parties)
       IN  /\ matrix' = st.matrix
           /\ div' = st.div
           /\ pc' = CASE st.ctl = "panic"    -> "panic"
                      [] st.ctl = "break"    -> "tally"
                      [] st.ctl = "continue" -> "loop"
    /\ UNCHANGED <<method, nb_seats, parties, seats, cmp, iters>>

\* The tally and the return.
Return ==
    /\ pc = "tally"
    /\ seats' = SeatVector(matrix, nb_seats, parties)
    /\ pc' = "done"
    /\ UNCHANGED <<method, nb_seats, parties, div, matrix, cmp, iters>>

\* A second call with every vote count multiplied by k.
Rescale(k) ==
    /\ pc = "done"
    /\ cmp = NoCmp
    /\ LET ps == [p \in 1..Len(parties) |-> k * parties[p]]
           r  == AllocateSeats(method, nb_seats, ps)
       IN  cmp' = [kind |-> "scale", party |-> 0, votes |-> ps,
                   ok |-> r.ok, seats |-> r.seats]
    /\ UNCHANGED <<method, pc, nb_seats, parties, div, matrix, seats, iters>>

\* A second call with the votes of party p raised to v.
Raise(p, v) ==
    /\ pc = "done"
    /\ cmp = NoCmp
    /\ p \in 1..Len(parties)
    /\ v > parties[p]
    /\ LET ps == [parties EXCEPT ![p] = v]
           r  == AllocateSeats(method, nb_seats, ps)
       IN  cmp' = [kind |-> "raise", party |-> p, votes |-> ps,
                   ok |-> r.ok, seats |-> r.seats]
    /\ UNCHANGED <<method, pc, nb_seats, parties, div, matrix, seats, iters>>

Next ==
    \/ \E n \in 0..MaxSeats, ps \in PartyLists : Call(n, ps)
    \/ CallExample
    \/ LoopIteration
    \/ Return
    \/ \E k \in 2..MaxScale : Rescale(k)
    \/ \E p \in 1..MaxParties, v \in 1..MaxVotes : Raise(p, v)

Spec == Init /\ [][Next]_vars

\* The enabling condition of LoopIteration (a pass always advances div).
LoopEnabled == pc = "loop" /\ div.idx < RankCap(nb_seats)

\* allocate_seats is straight-line sequential code: a step that can be
\* taken is taken.  The second conjunct is WF_vars(LoopIteration) written
\* out with LoopEnabled for ENABLED <<LoopIteration>>_vars.
FairSpec ==
    /\ Spec
    /\ WF_vars(Return)
    /\ ([]<>(~LoopEnabled) \/ []<><<LoopIteration>>_vars)

(* ------------------- specification of the iterator ---------------------- *)
DivInit ==
    /\ method \in Methods
    /\ pc = "idle"
    /\ nb_seats = 0
    /\ parties = << >>
    /\ div = Divisors(method)
    /\ matrix = << >>
    /\ seats = << >>
    /\ cmp = NoCmp
    /\ iters = << >>

\* A new Divisors instance is created; out records what it has produced.
DivNew(m) ==
    /\ Len(iters) < MaxIters
    /\ iters' = Append(iters, [it |-> Divisors(m), out |-> << >>])
    /\ UNCHANGED <<method, pc, nb_seats, parties, div, matrix, seats, cmp>>

\* next() is called on instance k.
DivStep(k) ==
    /\ k \in 1..Len(iters)
    /\ iters[k].it.idx < MaxRank
    /\ LET nx == DivisorsNext(iters[k].it)
       IN  iters' = [iters EXCEPT ![k] =
                        [it |-> nx.iter, out |-> Append(iters[k].out, nx.value)]]
    /\ UNCHANGED <<method, pc, nb_seats, parties, div, matrix, seats, cmp>>

DivNextRel ==
    \/ \E m \in Methods : DivNew(m)
    \/ \E k \in 1..MaxIters : DivStep(k)

DivSpec == DivInit /\ [][DivNextRel]_vars

(* ======================== properties ==================================== *)
RECURSIVE SumSeq(_)
SumSeq(s) == IF s = << >> THEN 0 ELSE s[1] + SumSeq(Tail(s))

AllPositive(ps) == \A p \in 1..Len(ps) : ps[p] > 0

Called == pc # "idle"

\* The divisor of the table of methods at rank i, as <<numerator, denominator>>.
ClosedForm(m, i) ==
    CASE m = "DHondt"         -> <<i + 1, 1>>
      [] m = "SainteLague"    -> <<2 * i + 1, 1>>
      [] m = "Imperiali"      -> <<i + 2, 2>>
      [] m = "HuntingtonHill" -> <<-((i + 1) * (i + 2)), 1>>
      [] m = "Danish"         -> <<3 * i + 1, 1>>

\* vp / dp >= vq / dq for positive divisors dp, dq.
AverageGeq(vp, dp, vq, dq) == vp * dp[2] * dq[1] >= vq * dq[2] * dp[1]

\* C1: for the positive-divisor methods and a non-empty list of positive
\* votes the returned vector is a highest-averages allocation: it hands out
\* nb_seats seats, every awarded average votes[p] / divisor(seats[p] - 1) is
\* at least every un-awarded average votes[q] / divisor(seats[q]), and the
\* Imperiali example of the tests gives [3, 1, 8, 1].
C1_HighestAverages ==
    (pc = "done" /\ method \in PositiveMethods /\ Len(parties) > 0
        /\ AllPositive(parties)) =>
      /\ SumSeq(seats) = nb_seats
      /\ \A p, q \in 1..Len(parties) :
            seats[p] > 0 =>
               AverageGeq(parties[p], ClosedForm(method, seats[p] - 1),
                          parties[q], ClosedForm(method, seats[q]))
      /\ (nb_seats = ExampleSeats /\ parties = ExampleParties)
            => seats = ExampleResult

C1_Witness ==
    /\ pc = "done"
    /\ method = "Imperiali"
    /\ nb_seats = ExampleSeats
    /\ parties = ExampleParties
    /\ seats = ExampleResult

\* C2: whenever some party has positive votes or nb_seats = 0, the call
\* returns a vector with one entry per party, the entries summing to nb_seats.
C2_LengthAndSum ==
    (Called /\ (nb_seats = 0 \/ \E p \in 1..Len(parties) : parties[p] > 0)) =>
      /\ pc # "panic"
      /\ pc = "done" => (Len(seats) = Len(parties) /\ SumSeq(seats) = nb_seats)

HuntingtonHillNeverBreaks ==
    (Called /\ method = "HuntingtonHill" /\ nb_seats >= 1
        /\ Len(parties) > 0 /\ AllPositive(parties)) =>
      /\ pc = "loop"
      /\ matrix # << >> => LoopBody(matrix, div, nb_seats, parties).ctl = "continue"

\* For the other methods the loop has stopped once rank nb_seats is added.
PositiveMethodsStop ==
    (pc = "loop" /\ method \in PositiveMethods
        /\ Len(parties) > 0 /\ AllPositive(parties)) => div.idx <= nb_seats

\* C4: a list containing a vote count of 0 does not make the call fail, and
\* the zero-vote party gets no seat when another party has positive votes.
C4_ZeroVotes ==
    (Called /\ \E p \in 1..Len(parties) : parties[p] = 0) =>
      /\ pc # "panic"
      /\ pc = "done" =>
            \A p \in 1..Len(parties) :
               (parties[p] = 0 /\ \E q \in 1..Len(parties) : parties[q] > 0)
                  => seats[p] = 0

\* C5: raising one party's votes, the rest unchanged, never lowers the
\* number of seats that party gets.
C5_Monotone ==
    cmp.kind = "raise" =>
      /\ cmp.ok
      /\ cmp.seats[cmp.party] >= seats[cmp.party]

C5_Witness ==
    /\ cmp.kind = "raise"
    /\ cmp.ok
    /\ cmp.seats[cmp.party] > seats[cmp.party]

\* A tie between an entry inside and an entry outside the top nb_seats.
TieAcrossBoundary(i, j) ==
    /\ i \in 1..nb_seats
    /\ j \in (nb_seats + 1)..Len(matrix)
    /\ RationalCmp(matrix[i].q, matrix[j].q) = 0
    /\ matrix[i].idx # matrix[j].idx

\* C6: multiplying every vote count by the same positive integer leaves the
\* returned seat vector unchanged.
C6_ScaleInvariant ==
    cmp.kind = "scale" => (cmp.ok /\ cmp.seats = seats)

C6_Witness ==
    /\ cmp.kind = "scale"
    /\ cmp.ok
    /\ nb_seats > 0
    /\ \E i, j \in 1..Len(matrix) : TieAcrossBoundary(i, j)

FirstFive(m) ==
    CASE m = "DHondt"         -> <<<<1, 1>>, <<2, 1>>, <<3, 1>>, <<4, 1>>, <<5, 1>>>>
      [] m = "SainteLague"    -> <<<<1, 1>>, <<3, 1>>, <<5, 1>>, <<7, 1>>, <<9, 1>>>>
      [] m = "Imperiali"      -> <<<<1, 1>>, <<3, 2>>, <<2, 1>>, <<5, 2>>, <<3, 1>>>>
      [] m = "HuntingtonHill" -> <<<<-2, 1>>, <<-6, 1>>, <<-12, 1>>, <<-20, 1>>, <<-30, 1>>>>
      [] m = "Danish"         -> <<<<1, 1>>, <<4, 1>>, <<7, 1>>, <<10, 1>>, <<13, 1>>>>

\* C7: the i-th value of every divisor sequence is the closed form of its
\* method at rank i (the first five as listed), and every instance starts
\* at rank 0 whatever the other instances have produced.
C7_DivisorSequence ==
    \A k \in 1..Len(iters) :
       LET m == iters[k].it.method
           out == iters[k].out
       IN  /\ Len(out) = iters[k].it.idx
           /\ \A i \in 1..Len(out) :
                 /\ out[i].den > 0
                 /\ out[i].num * ClosedForm(m, i - 1)[2]
                       = ClosedForm(m, i - 1)[1] * out[i].den
                 /\ i <= 5 => <<out[i].num, out[i].den>> = FirstFive(m)[i]

C7_Witness ==
    /\ Len(iters) = 2
    /\ iters[1].it.method = "Imperiali"
    /\ Len(iters[1].out) = 5
    /\ iters[2].it.method = "Imperiali"
    /\ iters[2].out = <<[num |-> 1, den |-> 1]>>

\* C8: with nb_seats = 0 the call returns the all-zero vector of length
\* parties.len() for every method and every party list, zero votes included.
C8_ZeroSeats ==
    (Called /\ nb_seats = 0) =>
      /\ pc # "panic"
      /\ pc = "done" => seats = [p \in 1..Len(parties) |-> 0]

\* C9 as stated: of two tied entries of different parties of which only one
\* is in the top nb_seats, the one in the top has the lower party index.
C9_LowerIndexWins ==
    pc = "done" =>
       \A i, j \in 1..Len(matrix) :
          TieAcrossBoundary(i, j) => matrix[i].idx < matrix[j].idx

\* C9 amended: of two tied entries of different parties of which only one
\* is in the top nb_seats, the one in the top has the lower rank, or the
\* same rank and the lower party index.
C9_LowerRankThenIndexWins ==
    pc = "done" =>
       \A i, j \in 1..Len(matrix) :
          TieAcrossBoundary(i, j) =>
             \/ matrix[i].row < matrix[j].row
             \/ matrix[i].row = matrix[j].row /\ matrix[i].idx < matrix[j].idx

C9_Witness ==
    /\ pc = "done"
    /\ \E i, j \in 1..Len(matrix) :
          /\ TieAcrossBoundary(i, j)
          /\ matrix[i].row < matrix[j].row
          /\ matrix[i].idx > matrix[j].idx

RECURSIVE FurtherRanks(_, _, _)
\* The collection after k more rows have been added and sorted.
FurtherRanks(m, d, k) ==
    IF k = 0 THEN m
    ELSE LET nx == DivisorsNext(d)
         IN  FurtherRanks(SortByQuotient(PushRow(m, d.idx, nx.value, parties)),
                          nx.iter, k - 1)

IsSorted(m) ==
    \A i, j \in 1..Len(m) : i < j => RationalCmp(m[i].q, m[j].q) <= 0

\* C10: every pass of the loop adds a full row at the next rank; the loop
\* stops after the pass for rank r exactly when the collection holds at
\* least nb_seats entries and none of the nb_seats best has rank r; and when
\* it stops, further ranks would not change the per-party counts.
C10_StopRule ==
    [][ (pc = "loop" /\ pc' \in {"loop", "tally"}) =>
          LET r == div.idx
              stop == /\ Len(matrix') >= nb_seats
                      /\ IsSorted(matrix')
                      /\ \A i \in 1..nb_seats : matrix'[i].row # r
          IN  /\ div'.idx = r + 1
              /\ Len(matrix') = Len(matrix) + Len(parties)
              /\ \A p \in 1..Len(parties) :
                    \E i \in 1..Len(matrix') :
                       matrix'[i].idx = p /\ matrix'[i].row = r
              /\ (pc' = "tally") <=> stop
              /\ pc' = "tally" =>
                    \A k \in 1..MaxFurther :
                       SeatVector(FurtherRanks(matrix', div', k), nb_seats, parties)
                          = SeatVector(matrix', nb_seats, parties)
      ]_vars

C10_Witness ==
    /\ pc = "tally"
    /\ nb_seats >= 2
    /\ Len(parties) >= 2
    /\ div.idx >= 3

====
